---- MODULE Spec2Model ----
(***************************************************************************)
(* footballscoutanalysis.py: one run of the dashboard script.              *)
(*                                                                         *)
(* The script fetches the page's tables, keeps the wonderkids tables,      *)
(* labels each with one category, merges them into the Dataset `df`,       *)
(* reads the sidebar widgets, narrows `df` into `filtered`, renders the    *)
(* four category tabs and offers two exports.                              *)
(*                                                                         *)
(* Text is modelled as a sequence of one-character strings, so that        *)
(* upper(), lower(), strip(), split() and the pattern search of            *)
(* str.contains are computed, not assumed.  A DataFrame is a record        *)
(* [cols, rows]: the ordered column labels and the ordered rows, each row  *)
(* a function from the column labels to the cell values.                   *)
(***************************************************************************)
EXTENDS Integers, Sequences, FiniteSets, TLC

VARIABLES
    page,        \* what the URL serves to this run: [ok, tables]
    pc,          \* position of the script: start, build, merge, widgets,
                 \*   filter, tabs, export, done, halted, exception
    exc,         \* the uncaught exception that ended the run, or "none"
    tables,      \* line 44: the list read_html returned
    dfs,         \* line 45: the labelled tables
    labels,      \* line 54: `category` of each labelled table
    df,          \* line 63: the Dataset
    config,      \* lines 72-84: the widgets' values of this run
    filtered,    \* lines 87-93: the FilteredView
    tabs,        \* lines 99-114: per category, the slice `sub` and what is shown
    exports,     \* lines 120-132: the payloads of the two download buttons
    errorShown,  \* line 59: st.error was called
    runs,        \* script runs the session has started
    startup      \* the Dataset the first run of the session built

vars == <<page, pc, exc, tables, dfs, labels, df, config, filtered, tabs,
          exports, errorShown, runs, startup>>

----------------------------------------------------------------------------
(* Bounds of the exploration *)

MaxPageRows == 3    \* player rows on a page
MaxExtra == 2       \* rows beyond TopN in the long tables
MaxSpread == 2      \* distinct ratings in the long tables
MaxPosRows == 3     \* rows of the tables used to exercise the labelling
MaxRuns == 2        \* script runs of a session

(* Program constants *)

TopN == 100         \* head(100)
NaN == -1           \* the missing value of a numeric column (ratings and
                    \* ages are non-negative)

----------------------------------------------------------------------------
(* Generic helpers *)

Range(s) == {s[i] : i \in DOMAIN s}

(* the rows of `rows` at the positions in S, in order *)
Pick(rows, S) ==
    LET numbered == [i \in DOMAIN rows |-> <<i, rows[i]>>]
        chosen == SelectSeq(numbered, LAMBDA p : p[1] \in S)
    IN  [k \in DOMAIN chosen |-> chosen[k][2]]

(* the frame t narrowed to the rows `rows` *)
WithRows(t, rows) == [t EXCEPT !.rows = rows]

EmptyFrame == [cols |-> <<>>, rows |-> <<>>]

----------------------------------------------------------------------------
(* Characters *)

LowerChars == <<"a","b","c","d","e","f","g","h","i","j","k","l","m",
                "n","o","p","q","r","s","t","u","v","w","x","y","z">>
UpperChars == <<"A","B","C","D","E","F","G","H","I","J","K","L","M",
                "N","O","P","Q","R","S","T","U","V","W","X","Y","Z">>

UpperChar(c) ==
    IF \E i \in DOMAIN LowerChars : LowerChars[i] = c
    THEN UpperChars[CHOOSE i \in DOMAIN LowerChars : LowerChars[i] = c]
    ELSE c

LowerChar(c) ==
    IF \E i \in DOMAIN UpperChars : UpperChars[i] = c
    THEN LowerChars[CHOOSE i \in DOMAIN UpperChars : UpperChars[i] = c]
    ELSE c

Upper(s) == [i \in DOMAIN s |-> UpperChar(s[i])]
Lower(s) == [i \in DOMAIN s |-> LowerChar(s[i])]

IsSpace(c) == c = " "

(* str.split(): the maximal runs of non-whitespace characters *)
Split(s) ==
    {SubSeq(s, p[1], p[2]) : p \in
        {q \in (DOMAIN s) \X (DOMAIN s) :
            /\ q[1] <= q[2]
            /\ \A k \in q[1]..q[2] : ~IsSpace(s[k])
            /\ (q[1] = 1 \/ IsSpace(s[q[1] - 1]))
            /\ (q[2] = Len(s) \/ IsSpace(s[q[2] + 1]))}}

(* str.strip(): without the leading and trailing whitespace *)
Strip(s) ==
    LET body == {i \in DOMAIN s : ~IsSpace(s[i])}
    IN  IF body = {} THEN <<>>
        ELSE SubSeq(s, CHOOSE i \in body : \A j \in body : i <= j,
                       CHOOSE i \in body : \A j \in body : j <= i)

----------------------------------------------------------------------------
(* Helper functions of the script *)

Needed == {"R", "Name", "Age", "Pos", "Club"}

is_wonderkids_table(t) ==
    /\ Needed \subseteq Range(t.cols)
    /\ Len(t.rows) > 0

PosSeparators == {"(", ")", "/", ","}

tokenise_pos(s) ==
    LET up == Upper(s)
        spaced == [i \in DOMAIN up |->
                      IF up[i] \in PosSeparators THEN " " ELSE up[i]]
    IN  Split(spaced)

order == <<"Goalkeeper", "Defender", "Midfielder", "Forward">>

CategoryTokens ==
    [Goalkeeper |-> {<<"G","K">>},
     Defender   |-> {<<"D">>, <<"W","B">>, <<"F","B">>},
     Midfielder |-> {<<"D","M">>, <<"M">>, <<"A","M">>, <<"W">>},
     Forward    |-> {<<"S","T">>, <<"C","F">>, <<"F","W">>}]

(* counts[k] after the loop over df["Pos"] *)
counts(t) ==
    [k \in Range(order) |->
        Cardinality({i \in DOMAIN t.rows :
            CategoryTokens[k] \cap tokenise_pos(t.rows[i]["Pos"]) # {}})]

(* a mistaken key: the position in `order` not negated *)
MajorityKeyPlain(c, k) == <<c[order[k]], k - 1>>

(* key=lambda k: (counts[k], -order.index(k)) *)
MajorityKey(c, k) == <<c[order[k]], -(k - 1)>>

TupleLess(a, b) == a[1] < b[1] \/ (a[1] = b[1] /\ a[2] < b[2])

(* max(order, key=...): the first element no other element's key exceeds *)
table_majority_category(t) ==
    LET c == counts(t)
        best == CHOOSE k \in DOMAIN order :
                    /\ \A j \in DOMAIN order :
                           ~TupleLess(MajorityKey(c, k), MajorityKey(c, j))
                    /\ \A j \in 1..(k - 1) :
                           TupleLess(MajorityKey(c, j), MajorityKey(c, k))
    IN  order[best]

----------------------------------------------------------------------------
(* Lines 50-55: shaping one table *)

KeptColumns == <<"R", "Name", "Age", "Pos", "Club">>

(* t[[...]]: the named columns, in the order named *)
Select(t, cols) ==
    [cols |-> cols,
     rows |-> [i \in DOMAIN t.rows |-> [c \in Range(cols) |-> t.rows[i][c]]]]

(* the drop done after the coercion: unreadable ratings go as well *)
DropUnreadableRating(t) ==
    WithRows(t, SelectSeq(t.rows, LAMBDA r : r["R"].kind = "num"))

(* dropna(subset=["R"]) *)
DropAbsentRating(t) ==
    WithRows(t, SelectSeq(t.rows, LAMBDA r : r["R"].kind # "absent"))

(* pd.to_numeric(..., errors="coerce") of one cell *)
to_numeric(cell) == IF cell.kind = "num" THEN cell.val ELSE NaN

(* rename R to Rating, then coerce the column *)
RenameAndCoerce(t) ==
    LET newcols == [i \in DOMAIN t.cols |->
                       IF t.cols[i] = "R" THEN "Rating" ELSE t.cols[i]]
    IN  [cols |-> newcols,
         rows |-> [i \in DOMAIN t.rows |->
                     [c \in Range(newcols) |->
                         IF c = "Rating" THEN to_numeric(t.rows[i]["R"])
                         ELSE t.rows[i][c]]]]

(* lines 50-52: the table handed to table_majority_category *)
Prepare(t) == RenameAndCoerce(DropAbsentRating(Select(t, KeptColumns)))

(* t["Category"] = category *)
AddCategory(t, category) ==
    [cols |-> Append(t.cols, "Category"),
     rows |-> [i \in DOMAIN t.rows |->
                 [c \in Range(t.cols) \cup {"Category"} |->
                     IF c = "Category" THEN category ELSE t.rows[i][c]]]]

LabelTable(t) == AddCategory(Prepare(t), table_majority_category(Prepare(t)))

----------------------------------------------------------------------------
(* Line 63: the merge *)

RECURSIVE ConcatRows(_)
ConcatRows(frames) ==
    IF frames = <<>> THEN <<>>
    ELSE Head(frames).rows \o ConcatRows(Tail(frames))

(* pd.concat(dfs, ignore_index=True), dfs not empty *)
Concat(frames) == [cols |-> frames[1].cols, rows |-> ConcatRows(frames)]

Identity(r) == <<r["Name"], r["Club"], r["Pos"]>>

(* keep="last": a later row with the same identity displaces the row *)
DropDuplicatesLast(t) ==
    [t EXCEPT !.rows = Pick(t.rows,
        {i \in DOMAIN t.rows :
            \A j \in (i + 1)..Len(t.rows) :
                Identity(t.rows[j]) # Identity(t.rows[i])})]

(* drop_duplicates(subset=["Name", "Club", "Pos"]), keep="first" *)
drop_duplicates(t) ==
    [t EXCEPT !.rows = Pick(t.rows,
        {i \in DOMAIN t.rows :
            \A j \in 1..(i - 1) :
                Identity(t.rows[j]) # Identity(t.rows[i])})]

----------------------------------------------------------------------------
(* Lines 70-84: the sidebar widgets *)

(* Series.min() and Series.max(): missing values are skipped, and the
   result is missing when nothing is left *)
SeriesValues(t, c) == {t.rows[i][c] : i \in DOMAIN t.rows} \ {NaN}

(* line 80: the options of the club multiselect *)
ClubOptions(t) == {t.rows[i]["Club"] : i \in DOMAIN t.rows}

SeriesMin(t, c) ==
    LET vals == SeriesValues(t, c)
    IN  IF vals = {} THEN NaN ELSE CHOOSE v \in vals : \A w \in vals : v <= w

SeriesMax(t, c) ==
    LET vals == SeriesValues(t, c)
    IN  IF vals = {} THEN NaN ELSE CHOOSE v \in vals : \A w \in vals : w <= v

(* int(x) raises ValueError on a missing value *)
IntRaises(x) == x = NaN

(* the texts typed into the search box *)
SearchInputs ==
    {<<>>, <<"a">>, <<"B">>, <<"a","b">>, <<"a",".">>, <<" ","a">>}

NoConfig ==
    [made |-> FALSE, age_range |-> <<0, 0>>, rating_filter |-> 0,
     selected_clubs |-> {}, search |-> <<>>]

(* what the four widgets can return for the Dataset d *)
WidgetValues(d) ==
    {[made |-> TRUE, age_range |-> <<lo, hi>>, rating_filter |-> r,
      selected_clubs |-> cs, search |-> txt] :
        lo \in SeriesMin(d, "Age")..SeriesMax(d, "Age"),
        hi \in SeriesMin(d, "Age")..SeriesMax(d, "Age"),
        r \in SeriesMin(d, "Rating")..SeriesMax(d, "Rating"),
        cs \in SUBSET ClubOptions(d),
        txt \in SearchInputs}

----------------------------------------------------------------------------
(* Lines 86-93: the filters *)

(* Series.str.contains(pat): a regular-expression search; of the
   metacharacters the modelled alphabet holds ".", which matches any
   character *)
str_contains(s, pat) ==
    \E off \in 0..(Len(s) - Len(pat)) :
        \A i \in 1..Len(pat) : pat[i] = "." \/ pat[i] = s[off + i]

(* line 84 *)
search_name(cfg) == Lower(Strip(cfg.search))

(* a comparison with a missing value is False *)
RatingAtLeast(x, r) == x # NaN /\ x >= r

(* filtered = df.copy(), then the four filters in turn *)
ApplyFilters(d, cfg) ==
    LET byAge ==
            WithRows(d, SelectSeq(d.rows,
                LAMBDA r : /\ r["Age"] >= cfg.age_range[1]
                           /\ r["Age"] <= cfg.age_range[2]))
        byRating ==
            WithRows(byAge, SelectSeq(byAge.rows,
                LAMBDA r : RatingAtLeast(r["Rating"], cfg.rating_filter)))
        byClub ==
            IF cfg.selected_clubs # {}
            THEN WithRows(byRating, SelectSeq(byRating.rows,
                     LAMBDA r : r["Club"] \in cfg.selected_clubs))
            ELSE byRating
    IN  IF Len(search_name(cfg)) > 0
        THEN WithRows(byClub, SelectSeq(byClub.rows,
                 LAMBDA r : str_contains(Lower(r["Name"]), search_name(cfg))))
        ELSE byClub

----------------------------------------------------------------------------
(* Lines 99-114: the category tabs *)

(* how a sort may order rows of equal Rating: sort_values is called with
   its default kind, quicksort, which promises no order among equal keys *)
TieOrders == {"kept", "reversed"}

Reverse(s) == [k \in DOMAIN s |-> s[Len(s) + 1 - k]]

(* the rows rated v, in the order the sort leaves them in *)
TieGroup(rows, v, tie) ==
    LET same == SelectSeq(rows, LAMBDA r : r["Rating"] = v)
    IN  IF tie = "kept" THEN same ELSE Reverse(same)

RECURSIVE RatingGroups(_, _, _)
(* the groups of the ratings in vals from the highest down, then the rows
   without a rating *)
RatingGroups(rows, vals, tie) ==
    IF vals = {} THEN TieGroup(rows, NaN, tie)
    ELSE LET v == CHOOSE w \in vals : \A u \in vals : u <= w
         IN  TieGroup(rows, v, tie) \o RatingGroups(rows, vals \ {v}, tie)

(* sort_values("Rating", ascending=False): missing ratings last *)
sort_values(t, tie) ==
    [t EXCEPT !.rows = RatingGroups(t.rows, SeriesValues(t, "Rating"), tie)]

(* head(n) without the cut *)
HeadAll(t, n) == t

head(t, n) ==
    WithRows(t, SubSeq(t.rows, 1, IF Len(t.rows) < n THEN Len(t.rows) ELSE n))

DisplayColumns == <<"Rating", "Name", "Age", "Pos", "Club">>

(* line 101 *)
TabSlice(view, cat_label, tie) ==
    LET ofCategory ==
            WithRows(view, SelectSeq(view.rows,
                LAMBDA r : r["Category"] = cat_label))
    IN  head(sort_values(ofCategory, tie), TopN)

render_tab(view, cat_label, tie) ==
    LET sub == TabSlice(view, cat_label, tie)
    IN  [sub |-> sub,
         shown |-> Select(sub, DisplayColumns),
         chart |-> sub.rows # <<>>]

NoTabs == [made |-> FALSE, tab |-> <<>>]

----------------------------------------------------------------------------
(* Lines 116-132: the exports *)

(* index=True: a leading column of row numbers *)
WriteColumnsIndexed(t) ==
    [header |-> <<"">> \o t.cols,
     body   |-> [i \in DOMAIN t.rows |->
                   <<i - 1>> \o [k \in DOMAIN t.cols |-> t.rows[i][t.cols[k]]]]]

(* to_csv(index=False) and to_excel(index=False): a header of the frame's
   column labels, then one line per row with its cells in column order *)
WriteColumns(t) ==
    [header |-> t.cols,
     body   |-> [i \in DOMAIN t.rows |->
                   [k \in DOMAIN t.cols |-> t.rows[i][t.cols[k]]]]]

NoExports == [made |-> FALSE, csv |-> WriteColumns(EmptyFrame),
              xlsx |-> WriteColumns(EmptyFrame)]

----------------------------------------------------------------------------
(* What the page can serve *)

Num(n) == [kind |-> "num", val |-> n]
Text == [kind |-> "text", val |-> 0]      \* a rating cell such as "-"
Absent == [kind |-> "absent", val |-> 0]  \* an empty rating cell

PageColumns == <<"Name", "Nat", "R", "Age", "Pos", "Club">>

Row(name, r, age, pos, club) ==
    [Name |-> name, Nat |-> "ENG", R |-> r, Age |-> age, Pos |-> pos,
     Club |-> club]

SampleRows ==
    {Row(<<"A","b">>, Num(2), 17, <<"G","K">>, "Ajax"),
     Row(<<"A","b">>, Num(1), 18, <<"G","K">>, "Ajax"),
     Row(<<"A","b">>, Absent, 18, <<"G","K">>, "Ajax"),
     Row(<<"b","a">>, Text,   17, <<"d","/","W","B">>, "Benfica"),
     Row(<<"b","a">>, Num(1), 18, <<"d","/","W","B">>, "Benfica")}

SeqsUpTo(S, lo, hi) == UNION {[1..k -> S] : k \in lo..hi}

PlayerTable(rs) == [cols |-> PageColumns, rows |-> rs]

(* tables the Table Filter must skip: a navigation table, and a player
   table without its Club column *)
NavTable == [cols |-> <<"Menu">>, rows |-> <<[Menu |-> "Home"]>>]

NoClubTable ==
    [cols |-> <<"Name", "R", "Age", "Pos">>,
     rows |-> <<[Name |-> <<"A","b">>, R |-> Num(2), Age |-> 17,
                 Pos |-> <<"G","K">>]>>]

FetchFailure == [ok |-> FALSE, tables |-> <<>>]

Served(ts) == [ok |-> TRUE, tables |-> ts]

(* a failed fetch, or a page of two player tables (either may be empty)
   that share up to MaxPageRows rows, alone or after the other tables *)
Pages ==
    {FetchFailure} \cup
    UNION {{Served(pre \o <<PlayerTable(SubSeq(rs, 1, c)),
                           PlayerTable(SubSeq(rs, c + 1, Len(rs)))>>) :
                c \in 0..Len(rs), pre \in {<<>>, <<NavTable, NoClubTable>>}} :
           rs \in SeqsUpTo(SampleRows, 0, MaxPageRows)}

(* pages with one long table of forwards, around the cut of head(100) *)
Digits == <<"0","1","2","3","4","5","6","7","8","9">>

LongName(i) ==
    <<"a", Digits[(i \div 100) + 1], Digits[((i \div 10) % 10) + 1],
      Digits[(i % 10) + 1]>>

LongTable(n, spread) ==
    PlayerTable([i \in 1..n |->
                    Row(LongName(i), Num(1 + (i % spread)), 17, <<"S","T">>,
                        IF i % 3 = 0 THEN "Benfica" ELSE "Ajax")])

LongPages ==
    {Served(<<LongTable(n, spread)>>) :
        n \in (TopN - 1)..(TopN + MaxExtra), spread \in 1..MaxSpread}

(* pages with one table whose rows differ in their position strings *)
PosSamples ==
    {<<"G","K">>, <<"D"," ","(","R","L","C",")",","," ","W","B">>,
     <<"M","/","S","T">>, <<"d","m">>, <<"R","L","C">>, <<"F","W">>}

PosPages ==
    {Served(<<PlayerTable([i \in DOMAIN ps |->
                              Row(<<"A","b">>, Num(1), 17, ps[i], "Ajax")])>>) :
        ps \in SeqsUpTo(PosSamples, 1, MaxPosRows)}

(* what a session of several runs is served *)
SessionPages ==
    {FetchFailure} \cup
    {Served(<<PlayerTable(<<r>>)>>) : r \in {x \in SampleRows : x["R"].kind = "num"}}

----------------------------------------------------------------------------
(* The script *)

InitWith(P) ==
    /\ page \in P
    /\ pc = "start"
    /\ exc = "none"
    /\ tables = <<>>
    /\ dfs = <<>>
    /\ labels = <<>>
    /\ df = EmptyFrame
    /\ config = NoConfig
    /\ filtered = EmptyFrame
    /\ tabs = NoTabs
    /\ exports = NoExports
    /\ errorShown = FALSE
    /\ runs = 1
    /\ startup = [built |-> FALSE, df |-> EmptyFrame]

Init == InitWith(Pages)

(* line 44: read_html raises when the fetch fails or the page has no table *)
Fetch ==
    /\ pc = "start"
    /\ IF page.ok
       THEN /\ tables' = page.tables
            /\ pc' = "build"
            /\ exc' = exc
       ELSE /\ tables' = tables
            /\ pc' = "exception"
            /\ exc' = "read_html"
    /\ UNCHANGED <<page, dfs, labels, df, config, filtered, tabs, exports,
                   errorShown, runs, startup>>

(* lines 45-60: the loop over the tables, then the halt when none is kept *)
BuildTables ==
    /\ pc = "build"
    /\ LET kept == SelectSeq(tables, is_wonderkids_table)
       IN  /\ dfs' = [i \in DOMAIN kept |-> LabelTable(kept[i])]
           /\ labels' = [i \in DOMAIN kept |->
                            table_majority_category(Prepare(kept[i]))]
           /\ IF Len(kept) = 0
              THEN errorShown' = TRUE /\ pc' = "halted"
              ELSE errorShown' = errorShown /\ pc' = "merge"
    /\ UNCHANGED <<page, exc, tables, df, config, filtered, tabs, exports,
                   runs, startup>>

(* line 63 *)
Merge ==
    /\ pc = "merge"
    /\ df' = drop_duplicates(Concat(dfs))
    /\ startup' = IF runs = 1 THEN [built |-> TRUE, df |-> df'] ELSE startup
    /\ pc' = "widgets"
    /\ UNCHANGED <<page, exc, tables, dfs, labels, config, filtered, tabs,
                   exports, errorShown, runs>>

(* lines 65-84: int() of a missing minimum or maximum raises; otherwise the
   widgets return values within their ranges *)
Widgets ==
    /\ pc = "widgets"
    /\ IF \/ IntRaises(SeriesMin(df, "Age")) \/ IntRaises(SeriesMax(df, "Age"))
          \/ IntRaises(SeriesMin(df, "Rating"))
          \/ IntRaises(SeriesMax(df, "Rating"))
       THEN /\ pc' = "exception"
            /\ exc' = "int"
            /\ config' = config
       ELSE /\ config' \in WidgetValues(df)
            /\ config'.age_range[1] <= config'.age_range[2]
            /\ pc' = "filter"
            /\ exc' = exc
    /\ UNCHANGED <<page, tables, dfs, labels, df, filtered, tabs, exports,
                   errorShown, runs, startup>>

(* lines 86-93 *)
FilterStep ==
    /\ pc = "filter"
    /\ filtered' = ApplyFilters(df, config)
    /\ pc' = "tabs"
    /\ UNCHANGED <<page, exc, tables, dfs, labels, df, config, tabs, exports,
                   errorShown, runs, startup>>

(* lines 95-114 *)
RenderTabs ==
    /\ pc = "tabs"
    /\ \E tie \in TieOrders :
          tabs' = [made |-> TRUE,
                   tab |-> [k \in DOMAIN order |-> render_tab(filtered, order[k], tie)]]
    /\ pc' = "export"
    /\ UNCHANGED <<page, exc, tables, dfs, labels, df, config, filtered,
                   exports, errorShown, runs, startup>>

(* lines 116-132 *)
Export ==
    /\ pc = "export"
    /\ exports' = [made |-> TRUE, csv |-> WriteColumns(filtered),
                   xlsx |-> WriteColumns(filtered)]
    /\ pc' = "done"
    /\ UNCHANGED <<page, exc, tables, dfs, labels, df, config, filtered, tabs,
                   errorShown, runs, startup>>

Next ==
    \/ Fetch
    \/ BuildTables
    \/ Merge
    \/ Widgets
    \/ FilterStep
    \/ RenderTabs
    \/ Export

Spec == Init /\ [][Next]_vars

(* the labelling exercised on tables of varied position strings *)
InitCategory == InitWith(PosPages)

SpecCategory == InitCategory /\ [][Next]_vars

(* the tabs exercised on long tables *)
InitTop100 == InitWith(LongPages)

SpecTop100 == InitTop100 /\ [][Next]_vars

----------------------------------------------------------------------------
(* A session: every widget interaction makes Streamlit run the script again
   from its first line, in a fresh namespace.  Nothing in the script caches
   the tables (no st.cache_data, no st.session_state), so line 44 fetches
   the page again. *)

Rerun ==
    /\ pc = "done"
    /\ runs < MaxRuns
    /\ page' \in SessionPages
    /\ runs' = runs + 1
    /\ pc' = "start"
    /\ tables' = <<>>
    /\ dfs' = <<>>
    /\ labels' = <<>>
    /\ df' = EmptyFrame
    /\ config' = NoConfig
    /\ filtered' = EmptyFrame
    /\ tabs' = NoTabs
    /\ exports' = NoExports
    /\ UNCHANGED <<exc, errorShown, startup>>

InitSession == InitWith(SessionPages)

NextSession == Next \/ Rerun

SpecSession == InitSession /\ [][NextSession]_vars

----------------------------------------------------------------------------
(* Properties *)

(* the labelled tables exist *)
Built ==
    \/ pc \in {"merge", "halted", "widgets", "filter", "tabs", "export", "done"}
    \/ pc = "exception" /\ exc = "int"

(* the Dataset exists *)
Merged ==
    \/ pc \in {"widgets", "filter", "tabs", "export", "done"}
    \/ pc = "exception" /\ exc = "int"

(* the FilteredView exists *)
Filtered == pc \in {"tabs", "export", "done"}

(* the labelled records in table order, then row order *)
AllRecords == ConcatRows(dfs)

ClaimOrder == <<"Goalkeeper", "Defender", "Midfielder", "Forward">>

ClaimHit(cat, toks) ==
    CASE cat = "Goalkeeper" -> <<"G","K">> \in toks
      [] cat = "Defender"   -> toks \cap {<<"D">>, <<"W","B">>, <<"F","B">>} # {}
      [] cat = "Midfielder" ->
             toks \cap {<<"D","M">>, <<"M">>, <<"A","M">>, <<"W">>} # {}
      [] cat = "Forward"    ->
             toks \cap {<<"S","T">>, <<"C","F">>, <<"F","W">>} # {}

ClaimCounter(t, cat) ==
    Cardinality({i \in DOMAIN t.rows :
                    ClaimHit(cat, tokenise_pos(t.rows[i]["Pos"]))})

(* C1: the label of every table is the category with the highest counter,
   each counter being the number of rows that pass that category's
   membership test; among categories tied on the highest count it is the
   earliest of Goalkeeper, Defender, Midfielder, Forward (so Goalkeeper when
   all four are zero); every row of the table carries that label *)
C1_MajorityCategory ==
    \A i \in DOMAIN labels :
        LET toks == [r \in DOMAIN dfs[i].rows |->
                        tokenise_pos(dfs[i].rows[r]["Pos"])]
            counter == [j \in DOMAIN ClaimOrder |->
                           Cardinality({r \in DOMAIN toks :
                                           ClaimHit(ClaimOrder[j], toks[r])})]
        IN  /\ \E k \in DOMAIN ClaimOrder :
                  /\ labels[i] = ClaimOrder[k]
                  /\ \A j \in DOMAIN ClaimOrder :
                        /\ counter[j] <= counter[k]
                        /\ j < k => counter[j] < counter[k]
            /\ \A r \in DOMAIN dfs[i].rows :
                  dfs[i].rows[r]["Category"] = labels[i]

(* a table tied between Goalkeeper and Defender on a positive highest count
   was labelled Goalkeeper *)
C1_Witness ==
    \E i \in DOMAIN labels :
        /\ labels[i] = "Goalkeeper"
        /\ ClaimCounter(dfs[i], "Goalkeeper") >= 1
        /\ ClaimCounter(dfs[i], "Defender") = ClaimCounter(dfs[i], "Goalkeeper")
        /\ ClaimCounter(dfs[i], "Midfielder") < ClaimCounter(dfs[i], "Goalkeeper")

(* the position in the labelled records of the first record with the
   identity of Dataset record k *)
FirstSeen(k) ==
    CHOOSE p \in DOMAIN AllRecords :
        /\ Identity(AllRecords[p]) = Identity(df.rows[k])
        /\ \A q \in 1..(p - 1) : Identity(AllRecords[q]) # Identity(df.rows[k])

(* C2: after the merge no two Dataset records share (Name, Club, Pos); each
   Dataset record is, whole, the first labelled record with its identity in
   table order then row order; every identity among the labelled records is
   in the Dataset; the Dataset keeps the order of the labelled records *)
C2_FirstOccurrenceKept ==
    Merged =>
        /\ \A k, l \in DOMAIN df.rows :
              k < l => Identity(df.rows[k]) # Identity(df.rows[l])
        /\ \A k \in DOMAIN df.rows :
              /\ \E p \in DOMAIN AllRecords :
                    Identity(AllRecords[p]) = Identity(df.rows[k])
              /\ df.rows[k] = AllRecords[FirstSeen(k)]
        /\ \A p \in DOMAIN AllRecords :
              \E k \in DOMAIN df.rows :
                    Identity(df.rows[k]) = Identity(AllRecords[p])
        /\ \A k, l \in DOMAIN df.rows : k < l => FirstSeen(k) < FirstSeen(l)

(* two tables held the same identity with different ratings, and the
   Dataset holds the record of the first table *)
C2_Witness ==
    /\ Merged
    /\ Len(dfs) = 2
    /\ \E p \in DOMAIN dfs[1].rows, q \in DOMAIN dfs[2].rows :
          /\ Identity(dfs[1].rows[p]) = Identity(dfs[2].rows[q])
          /\ dfs[1].rows[p]["Rating"] # dfs[2].rows[q]["Rating"]
          /\ dfs[1].rows[p]["Age"] # dfs[2].rows[q]["Age"]
          /\ \E k \in DOMAIN df.rows : df.rows[k] = dfs[1].rows[p]
    /\ Len(df.rows) >= 2

IsSubstring(s, sub) ==
    \E off \in 0..(Len(s) - Len(sub)) : \A i \in 1..Len(sub) : sub[i] = s[off + i]

(* the filter configuration's name_substring: the text of the search box
   without its surrounding blanks *)
NameSubstring == Strip(config.search)

ClaimMatches(r) ==
    /\ config.age_range[1] <= r["Age"] /\ r["Age"] <= config.age_range[2]
    /\ r["Rating"] # NaN /\ r["Rating"] >= config.rating_filter
    /\ (config.selected_clubs = {} \/ r["Club"] \in config.selected_clubs)
    /\ \/ Len(NameSubstring) = 0
       \/ IsSubstring(Lower(r["Name"]), Lower(NameSubstring))

(* C3: the FilteredView holds exactly the Dataset records within the age
   bounds, rated at least rating_min, of a selected club (or any club when
   none is selected) and whose Name contains name_substring as a
   case-insensitive substring (or any name when it is empty), in Dataset
   order *)
C3_FilterAsClaimed ==
    Filtered =>
        filtered.rows = Pick(df.rows, {i \in DOMAIN df.rows : ClaimMatches(df.rows[i])})

ColumnsWithCategory == <<"Rating", "Name", "Age", "Pos", "Club", "Category">>

ExportedRowsAreTheView(e) ==
    /\ Len(e.body) = Len(filtered.rows)
    /\ \A i \in DOMAIN e.body :
          /\ Len(e.body[i]) = Len(e.header)
          /\ \A k \in DOMAIN e.header :
                e.body[i][k] = filtered.rows[i][e.header[k]]

(* C4 as stated: both exports have exactly the columns Rating, Name, Age,
   Pos, Club, in that order, and exactly the rows of the FilteredView *)
C4_ExportColumnsAsClaimed ==
    exports.made =>
        \A e \in {exports.csv, exports.xlsx} :
            /\ e.header = <<"Rating", "Name", "Age", "Pos", "Club">>
            /\ ExportedRowsAreTheView(e)

(* C4 as amended: both exports have exactly the columns Rating, Name, Age,
   Pos, Club, Category, in that order, and exactly the rows of the
   FilteredView in its order *)
C4_ExportColumnsWithCategory ==
    exports.made =>
        \A e \in {exports.csv, exports.xlsx} :
            /\ e.header = ColumnsWithCategory
            /\ ExportedRowsAreTheView(e)

(* an export was made of a FilteredView that is a non-empty part of a
   larger Dataset *)
C4_Witness ==
    /\ pc = "done"
    /\ exports.made
    /\ Len(filtered.rows) >= 1
    /\ Len(filtered.rows) < Len(df.rows)
    /\ Len(exports.csv.body) = Len(filtered.rows)

(* the FilteredView records of one Category *)
OfCategory(cat) == SelectSeq(filtered.rows, LAMBDA r : r["Category"] = cat)

SortedByRatingDescending(rows) ==
    \A i \in 1..(Len(rows) - 1) : rows[i]["Rating"] >= rows[i + 1]["Rating"]

(* C5 as stated: every tab's slice is sorted by Rating descending, has at
   most 100 records and is a strict subset of the FilteredView records of
   its Category *)
C5_SliceStrictSubset ==
    tabs.made =>
        \A k \in DOMAIN ClaimOrder :
            LET sub == tabs.tab[k].sub.rows
            IN  /\ SortedByRatingDescending(sub)
                /\ Len(sub) <= 100
                /\ Range(sub) \subseteq Range(OfCategory(ClaimOrder[k]))
                /\ Range(sub) # Range(OfCategory(ClaimOrder[k]))

(* C5 as amended: every tab's slice is sorted by Rating descending, has at
   most 100 records and is a subset of the FilteredView records of its
   Category, a strict one exactly when more than 100 records qualify *)
C5_SliceSubset ==
    tabs.made =>
        \A k \in DOMAIN ClaimOrder :
            LET sub == tabs.tab[k].sub.rows
                all == OfCategory(ClaimOrder[k])
            IN  /\ SortedByRatingDescending(sub)
                /\ Len(sub) <= 100
                /\ Range(sub) \subseteq Range(all)
                /\ Range(sub) # Range(all) <=> Len(all) > 100

(* a tab was cut: more than 100 records of two different ratings qualified,
   and the slice holds 100 of them *)
C5_Witness ==
    /\ tabs.made
    /\ \E k \in DOMAIN ClaimOrder :
          /\ Len(OfCategory(ClaimOrder[k])) > 100
          /\ Len(tabs.tab[k].sub.rows) = 100
          /\ \E i, j \in DOMAIN OfCategory(ClaimOrder[k]) :
                OfCategory(ClaimOrder[k])[i]["Rating"]
                    # OfCategory(ClaimOrder[k])[j]["Rating"]

(* the position of a record in the Dataset *)
DatasetPosition(r) == CHOOSE p \in DOMAIN df.rows : df.rows[p] = r

(* C6: in every tab's slice, two records of equal Rating are in the order
   they have in the Dataset *)
C6_StableTieBreak ==
    tabs.made =>
        \A k \in DOMAIN ClaimOrder :
            LET sub == tabs.tab[k].sub.rows
                at == [i \in DOMAIN sub |-> DatasetPosition(sub[i])]
            IN  \A i \in 1..(Len(sub) - 1) :
                    sub[i]["Rating"] = sub[i + 1]["Rating"] => at[i] < at[i + 1]

(* the raw tables the Table Filter keeps *)
KeptTables == SelectSeq(tables, is_wonderkids_table)

RatingPresent(r) == r["R"].kind # "absent"

(* C7: of a kept table exactly the rows with an absent rating are dropped:
   a row with a present rating is among the labelled records, in its place,
   with its number as Rating or, when the rating is not a number, a missing
   Rating; such a record, when it is the first with its identity, is in the
   Dataset with its missing Rating; and no record with a missing Rating is
   in the FilteredView, whatever rating_min is *)
C7_UnreadableRatingKept ==
    /\ Built =>
          /\ Len(dfs) = Len(KeptTables)
          /\ \A i \in DOMAIN dfs :
                LET present == SelectSeq(KeptTables[i].rows, RatingPresent)
                IN  /\ Len(dfs[i].rows) = Len(present)
                    /\ \A k \in DOMAIN present :
                          /\ Identity(dfs[i].rows[k]) = Identity(present[k])
                          /\ dfs[i].rows[k]["Age"] = present[k]["Age"]
                          /\ dfs[i].rows[k]["Rating"] =
                                 IF present[k]["R"].kind = "text" THEN NaN
                                 ELSE present[k]["R"].val
    /\ Merged =>
          \A p \in DOMAIN AllRecords :
              (/\ AllRecords[p]["Rating"] = NaN
               /\ \A q \in 1..(p - 1) :
                     Identity(AllRecords[q]) # Identity(AllRecords[p]))
                  => \E k \in DOMAIN df.rows : df.rows[k] = AllRecords[p]
    /\ Filtered =>
          \A k \in DOMAIN filtered.rows : filtered.rows[k]["Rating"] # NaN

(* a run completed on a Dataset that holds a record whose rating was not a
   number, and its FilteredView is not empty *)
C7_Witness ==
    /\ pc = "done"
    /\ \E i \in DOMAIN KeptTables : \E k \in DOMAIN KeptTables[i].rows :
          KeptTables[i].rows[k]["R"].kind = "text"
    /\ \E k \in DOMAIN df.rows : df.rows[k]["Rating"] = NaN
    /\ Len(filtered.rows) >= 1
    /\ Len(filtered.rows) < Len(df.rows)

NoTablePasses == \A i \in DOMAIN page.tables : ~is_wonderkids_table(page.tables[i])

(* C8: when the fetch fails or yields no table that passes the Table
   Filter, the run shows the error message and halts without a widget, a tab
   or an export *)
C8_FailureShowsMessage ==
    ((~page.ok \/ NoTablePasses) /\ pc \notin {"start", "build"}) =>
        /\ pc = "halted"
        /\ errorShown
        /\ ~config.made /\ ~tabs.made /\ ~exports.made

(* C9: for every list of scraped tables the run raises no exception: it
   ends in the halt or in the complete render *)
C9_NoOtherException ==
    page.ok => (pc # "exception" /\ exc = "none")

(* C10: after filter changes the Dataset is the one the startup build
   made, and the FilteredView is the filter result of the Dataset under the
   current configuration *)
C10_DatasetUnchanged ==
    (startup.built /\ Filtered) =>
        /\ df = startup.df
        /\ filtered = ApplyFilters(df, config)

====
